---- MODULE Spec2Model ----
(***************************************************************************)
(* SequentialGenerator: codes of the form prefix sep date sep sequence.    *)
(* Strings are sequences of one-character strings; indices in the helper   *)
(* operators are JavaScript's (0-based), converted at SubSeq.              *)
(***************************************************************************)
EXTENDS Integers, Sequences, FiniteSets, TLC

VARIABLES prefix, dateFormat, timeZone, separator,
          sequentialLength, lastGeneratedDate, currentSequence,
          now, op, arg, ret, pre, issued,
          other, callers, returned, frames, dateString

config == <<prefix, dateFormat, timeZone, separator>>
vars == <<prefix, dateFormat, timeZone, separator,
          sequentialLength, lastGeneratedDate, currentSequence,
          now, op, arg, ret, pre, issued, other, callers,
          returned, frames, dateString>>

\* other: a second generator of the same configuration, used where two
\* generators are compared; callers: the generate() calls in progress, used
\* where the statements of generate() are interleaved; returned: the codes
\* generate() has returned, in order, where they are compared with each other;
\* frames: the activations of generateFromSequence that have not returned,
\* where its self-call is followed; dateString: the field of this name of the
\* positional-constructor class. All are idle in Spec.
extras == <<returned, frames, dateString>>
sides == <<other, callers, returned, frames, dateString>>

(* ---------------------------- bounds ----------------------------------- *)
\* generate() is not called once currentSequence has reached this value
MaxSequence == 10
\* largest sequentialLength a generator is constructed with
MaxInitialLength == 2
\* number of codes each of two compared generators is asked for
MaxCodes == 12
\* number of generate() calls in the history of each of two compared
\* generators
MaxHistory == 2
\* number of codes of generate() that are kept to be compared
MaxReturned == 11

(* ----------------------- JavaScript strings ---------------------------- *)
DigitChars == <<"0", "1", "2", "3", "4", "5", "6", "7", "8", "9">>

IsDigit(c) == \E i \in 1..10 : DigitChars[i] = c

DigitValue(c) == (CHOOSE i \in 1..10 : DigitChars[i] = c) - 1

\* the value parseInt gives a string that does not start with a number
NaN == -1000000

\* null (lastGeneratedDate) and undefined (an omitted argument)
Null == <<"null">>
Undefined == <<"undefined">>

Min(a, b) == IF a < b THEN a ELSE b
Max(a, b) == IF a > b THEN a ELSE b

RECURSIVE NatToString(_)
NatToString(n) ==
  IF n < 10 THEN <<DigitChars[n + 1]>>
  ELSE NatToString(n \div 10) \o <<DigitChars[(n % 10) + 1]>>

\* String(n)
String(n) ==
  IF n = NaN THEN <<"N", "a", "N">>
  ELSE IF n < 0 THEN <<"-">> \o NatToString(0 - n)
  ELSE NatToString(n)

RECURSIVE Zeros(_)
Zeros(k) == IF k <= 0 THEN <<>> ELSE <<"0">> \o Zeros(k - 1)

\* s.padStart(targetLength, '0')
padStart(s, targetLength) ==
  IF Len(s) >= targetLength THEN s ELSE Zeros(targetLength - Len(s)) \o s

\* s.substring(start, end): both clamped to [0, length], swapped if reversed
substring(s, start, end) ==
  LET a == Max(0, Min(start, Len(s)))
      b == Max(0, Min(end, Len(s)))
  IN SubSeq(s, Min(a, b) + 1, Max(a, b))

\* s.substring(start)
substringFrom(s, start) == substring(s, start, Len(s))

\* s.startsWith(p)
startsWith(s, p) == Len(p) <= Len(s) /\ SubSeq(s, 1, Len(p)) = p

\* s.lastIndexOf(p): greatest 0-based index where p occurs, -1 if none
lastIndexOf(s, p) ==
  LET hits == {i \in 0..(Len(s) - Len(p)) : SubSeq(s, i + 1, i + Len(p)) = p}
  IN IF hits = {} THEN -1 ELSE CHOOSE i \in hits : \A j \in hits : j <= i

\* /^\d+$/.test(s)
IsNumeric(s) == Len(s) >= 1 /\ \A i \in 1..Len(s) : IsDigit(s[i])

RECURSIVE DigitsValue(_)
DigitsValue(s) ==
  IF s = <<>> THEN 0
  ELSE 10 * DigitsValue(SubSeq(s, 1, Len(s) - 1)) + DigitValue(s[Len(s)])

\* the longest prefix of s made of decimal digits
LeadingDigits(s) ==
  LET k == CHOOSE k \in 0..Len(s) :
             /\ \A i \in 1..k : IsDigit(s[i])
             /\ (k < Len(s) => ~IsDigit(s[k + 1]))
  IN SubSeq(s, 1, k)

\* parseInt(s, 10): optional sign, then the leading digits; NaN without digits
parseInt(s) ==
  LET signed == Len(s) >= 1 /\ s[1] \in {"-", "+"}
      body == IF signed THEN SubSeq(s, 2, Len(s)) ELSE s
      digits == LeadingDigits(body)
  IN IF digits = <<>> THEN NaN
     ELSE IF signed /\ s[1] = "-" THEN 0 - DigitsValue(digits)
     ELSE DigitsValue(digits)

\* Number(s) of a string: 0 for the empty string, the value of a string of
\* decimal digits with an optional sign, NaN for the other strings handed in
Number(s) ==
  LET signed == Len(s) >= 2 /\ s[1] \in {"-", "+"}
      body == IF signed THEN SubSeq(s, 2, Len(s)) ELSE s
  IN IF s = <<>> THEN 0
     ELSE IF ~IsNumeric(body) THEN NaN
     ELSE IF signed /\ s[1] = "-" THEN 0 - DigitsValue(body)
     ELSE DigitsValue(body)

(* ------------------------------ dayjs ---------------------------------- *)
\* instants of the system clock, in hours since the start of the month (UTC):
\* the 9th at 16:00Z and at 17:00Z, and the 10th at 10:00Z
Instants == {232, 233, 250}

\* the instant at which daylight saving time starts in America/New_York:
\* the 9th at 07:00Z, 02:00 local standard time
DstStart == 223

\* hours east of UTC at instant t
UtcOffset(tz, t) ==
  IF tz = "Asia/Bangkok" THEN 7
  ELSE IF tz = "America/New_York" THEN (IF t < DstStart THEN -5 ELSE -4)
  ELSE 0

\* the year and month of the instants, as "YYMM" renders them
YearMonth == <<"2", "5", "0", "1">>

\* the date rendered in UTC whatever the time zone is
FormatInstantUtc(t, tz, fmt) ==
  LET day == t \div 24
  IN IF fmt = "YYMMDD" THEN YearMonth \o padStart(String(day), 2)
     ELSE IF fmt = "DD" THEN padStart(String(day), 2)
     ELSE String(day)

\* dayjs(t).tz(tz).format(fmt): the local day of the month, "DD" zero-padded
\* to two digits, "D" unpadded, "YYMMDD" with year and month before it
FormatInstant(t, tz, fmt) ==
  LET day == (t + UtcOffset(tz, t)) \div 24
  IN IF fmt = "YYMMDD" THEN YearMonth \o padStart(String(day), 2)
     ELSE IF fmt = "DD" THEN padStart(String(day), 2)
     ELSE String(day)

(* ------------------------ SequentialGenerator -------------------------- *)
getDateKey == FormatInstant(now, timeZone, dateFormat)

getDateFormatLength == Len(FormatInstant(now, timeZone, dateFormat))

\* `${prefix}${separator}${key}${separator}${sequenceString}`
Template(key, sequenceString) ==
  prefix \o separator \o key \o separator \o sequenceString

\* generateFromSequence with the overflow fixed as the Known Issues propose
RECURSIVE generateFromSequenceKeep(_, _, _)
generateFromSequenceKeep(sequence, dateKey, length) ==
  LET currentKey == IF dateKey = Undefined \/ dateKey = <<>>
                    THEN getDateKey ELSE dateKey
      sequenceString == padStart(String(sequence), length)
  IN IF Len(sequenceString) > length
     THEN generateFromSequenceKeep(sequence, currentKey, length + 1)
     ELSE [code |-> Template(currentKey, sequenceString),
           sequentialLength |-> length]

\* generateFromSequence(sequence, dateKey) run with this.sequentialLength =
\* length: the code it returns and the sequentialLength it leaves
RECURSIVE generateFromSequence(_, _, _)
generateFromSequence(sequence, dateKey, length) ==
  LET currentKey == IF dateKey = Undefined \/ dateKey = <<>>
                    THEN getDateKey ELSE dateKey
      sequenceString == padStart(String(sequence), length)
  IN IF Len(sequenceString) > length
     THEN generateFromSequence(1, currentKey, length + 1)
     ELSE [code |-> Template(currentKey, sequenceString),
           sequentialLength |-> length]

\* the sequence continued whatever the date is
NextSequenceAlways(currentDate) == currentSequence + 1

\* generate(): the sequence is continued on an unchanged date, else restarted
NextSequence(currentDate) ==
  IF currentDate = lastGeneratedDate THEN currentSequence + 1 ELSE 1

\* generate() that returns the longer sequence string as it is and leaves
\* sequentialLength alone
generateCodeNoGrowth(sequence, currentDate, length) ==
  [code |-> Template(currentDate, padStart(String(sequence), length)),
   sequentialLength |-> length]

\* generate() that starts again at 1 when the sequence string is longer, and
\* leaves sequentialLength alone
generateCodeWrap(sequence, currentDate, length) ==
  LET sequenceString == padStart(String(sequence), length)
  IN IF Len(sequenceString) > length
     THEN [code |-> Template(currentDate, padStart(<<"1">>, length)),
           sequentialLength |-> length]
     ELSE [code |-> Template(currentDate, sequenceString),
           sequentialLength |-> length]

\* generate(), lines 117-125, once sequence is stored in currentSequence:
\* the code it returns and the sequentialLength it leaves
generateCode(sequence, currentDate, length) ==
  LET sequenceString == padStart(String(sequence), length)
  IN IF Len(sequenceString) > length
     THEN generateFromSequence(1, currentDate, length + 1)
     ELSE [code |-> Template(currentDate, sequenceString),
           sequentialLength |-> length]

\* generate() run with this.sequentialLength = length: the sequence it
\* stores, the code it returns and the sequentialLength it leaves
generate(length) ==
  LET currentDate == FormatInstant(now, timeZone, dateFormat)
      sequence == NextSequence(currentDate)
      result == generateCode(sequence, currentDate, length)
  IN [sequence |-> sequence, date |-> currentDate, code |-> result.code,
      sequentialLength |-> result.sequentialLength]

\* extractDate that answers with the date of the last generate() once there
\* was one
extractDateOfLast(code) ==
  LET startIndex == Len(prefix) + Len(separator)
      lastSeparatorIndex == lastIndexOf(code, separator)
      dateLength == getDateFormatLength
  IN IF lastGeneratedDate # Null
     THEN lastGeneratedDate
     ELSE IF separator # <<>> /\ lastSeparatorIndex > startIndex
     THEN substring(code, startIndex, lastSeparatorIndex)
     ELSE substring(code, startIndex, startIndex + dateLength)

\* extractDate that takes any occurrence of the separator as the end of the
\* date part
extractDateAnySeparator(code) ==
  LET startIndex == Len(prefix) + Len(separator)
      lastSeparatorIndex == lastIndexOf(code, separator)
      dateLength == getDateFormatLength
  IN IF separator # <<>> /\ lastSeparatorIndex # -1
     THEN substring(code, startIndex, lastSeparatorIndex)
     ELSE substring(code, startIndex, startIndex + dateLength)

extractDate(code) ==
  LET startIndex == Len(prefix) + Len(separator)
      lastSeparatorIndex == lastIndexOf(code, separator)
      dateLength == getDateFormatLength
  IN IF separator # <<>> /\ lastSeparatorIndex > startIndex
     THEN substring(code, startIndex, lastSeparatorIndex)
     ELSE substring(code, startIndex, startIndex + dateLength)

\* extractSequence that reads the whole code when it holds no separator
extractSequenceWholeCode(code) ==
  LET lastSeparatorIndex == lastIndexOf(code, separator)
      dateLength == getDateFormatLength
      startIndex ==
        IF separator # <<>>
        THEN IF lastSeparatorIndex # -1
             THEN lastSeparatorIndex + Len(separator)
             ELSE 0
        ELSE Len(prefix) + Len(separator) + dateLength + Len(separator)
  IN parseInt(substringFrom(code, startIndex))

\* extractSequence that always reads the last sequentialLength characters
extractSequenceByLength(code) ==
  parseInt(substringFrom(code, Len(code) - sequentialLength))

extractSequence(code) ==
  LET lastSeparatorIndex == lastIndexOf(code, separator)
      dateLength == getDateFormatLength
      startIndex ==
        IF separator # <<>>
        THEN IF lastSeparatorIndex # -1
             THEN lastSeparatorIndex + Len(separator)
             ELSE Len(code) - sequentialLength
        ELSE Len(prefix) + Len(separator) + dateLength + Len(separator)
  IN parseInt(substringFrom(code, startIndex))

\* validate without the length check
validateNoLength(code) ==
  LET dateLength == getDateFormatLength
      lastSeparatorIndex == lastIndexOf(code, separator)
      startIndex == Len(prefix) + Len(separator) + dateLength + Len(separator)
      sequenceString ==
        IF separator # <<>>
        THEN substringFrom(code, lastSeparatorIndex + Len(separator))
        ELSE substringFrom(code, startIndex)
  IN /\ startsWith(code, prefix)
     /\ (separator # <<>> => lastSeparatorIndex # -1)
     /\ IsNumeric(sequenceString)

validate(code) ==
  LET dateLength == getDateFormatLength
      lastSeparatorIndex == lastIndexOf(code, separator)
      startIndex == Len(prefix) + Len(separator) + dateLength + Len(separator)
      sequenceString ==
        IF separator # <<>>
        THEN substringFrom(code, lastSeparatorIndex + Len(separator))
        ELSE substringFrom(code, startIndex)
  IN /\ startsWith(code, prefix)
     /\ ~(Len(code) < Len(prefix) + (Len(separator) * 2) + dateLength + 1)
     /\ (separator # <<>> => lastSeparatorIndex # -1)
     /\ IsNumeric(sequenceString)


\* the length of lastCode's sequence part is not adopted
adoptLengthNever(lastCode) == sequentialLength

\* increment(), lines 219-233: sequentialLength after adopting the length of
\* lastCode's sequence part (called only when the dates are equal)
adoptLength(lastCode) ==
  LET lastSeqLength ==
        IF separator # <<>>
        THEN Len(lastCode) - (lastIndexOf(lastCode, separator) + Len(separator))
        ELSE Len(lastCode) - (Len(prefix) + getDateFormatLength)
  IN IF lastSeqLength > sequentialLength THEN lastSeqLength
     ELSE sequentialLength

\* lastSequence + 1 in JavaScript numbers
PlusOne(n) == IF n = NaN THEN NaN ELSE n + 1

\* increment that continues the generator's own currentSequence
incrementFromState(lastCode) ==
  generateFromSequence(currentSequence + 1, getDateKey, sequentialLength)

\* increment that continues from lastCode whatever its date is
incrementAnyDate(lastCode) ==
  generateFromSequence(PlusOne(extractSequence(lastCode)), getDateKey,
                       adoptLength(lastCode))

\* increment as the Known Issues table describes it: the value is kept when
\* the length grows
incrementContinue(lastCode) ==
  LET currentDate == getDateKey
      lastCodeDate == extractDate(lastCode)
  IN IF lastCodeDate = currentDate
     THEN generateFromSequenceKeep(PlusOne(extractSequence(lastCode)),
                                   currentDate, adoptLength(lastCode))
     ELSE generateFromSequenceKeep(1, currentDate, sequentialLength)

\* increment(lastCode) on a code that validate accepts: the code it returns
\* and the sequentialLength it leaves
increment(lastCode) ==
  LET currentDate == getDateKey
      lastCodeDate == extractDate(lastCode)
  IN IF lastCodeDate = currentDate
     THEN generateFromSequence(PlusOne(extractSequence(lastCode)), currentDate,
                               adoptLength(lastCode))
     ELSE generateFromSequence(1, currentDate, sequentialLength)

(* --------------------------- observations ------------------------------ *)
\* op, arg, ret: the last call, its arguments and what it returned or threw;
\* pre: the generator and the clock as they were when it was called;
\* issued: the sequence number in the code the last generate() returned, 0 when
\* there was none since the construction or the last reset()
NoArg == [code |-> Undefined, sequence |-> 0, dateKey |-> Undefined]
CodeArg(c) == [code |-> c, sequence |-> 0, dateKey |-> Undefined]
SequenceArg(n, k) == [code |-> Undefined, sequence |-> n, dateKey |-> k]

NoRet == [kind |-> "void", code |-> Undefined, number |-> 0, bool |-> FALSE]
CodeRet(c) == [kind |-> "code", code |-> c, number |-> 0, bool |-> FALSE]
NumberRet(n) == [kind |-> "number", code |-> Undefined, number |-> n, bool |-> FALSE]
BoolRet(b) == [kind |-> "boolean", code |-> Undefined, number |-> 0, bool |-> b]
PartsRet(d, n) == [kind |-> "parts", code |-> d, number |-> n, bool |-> FALSE]
Thrown == [kind |-> "error", code |-> Undefined, number |-> 0, bool |-> FALSE]

\* no second generator, no call in progress
NoGenerator == [sequentialLength |-> 0, code |-> Undefined]
NoCallers == <<>>

\* no code recorded, no activation
NoCodes == <<>>
NoFrames == <<>>

Snapshot == [sequentialLength |-> sequentialLength,
             lastGeneratedDate |-> lastGeneratedDate,
             currentSequence |-> currentSequence,
             now |-> now]

(* ------------------------------ inputs --------------------------------- *)
\* prefix and separator of the constructed generators: none, a prefix only,
\* both, a prefix that contains the separator, and a separator that is a digit
Layouts == {<< <<>>, <<>> >>, << <<"A">>, <<>> >>, << <<"A">>, <<"-">> >>,
            << <<"A", "-">>, <<"-">> >>, << <<"A">>, <<"0">> >>}

\* time zone and date format of the constructed generators
Calendars == {<<"UTC", "DD">>, <<"Asia/Bangkok", "D">>}

FirstInstant == CHOOSE t \in Instants : \A u \in Instants : t <= u

\* the date keys in the codes and arguments handed to the generator: the
\* current one and the one of the first instant
DateKeys == {getDateKey, FormatInstant(FirstInstant, timeZone, dateFormat)}

\* sequence parts of the codes handed to the generator
SequenceStrings == {<<"9">>, <<"0", "1">>, <<"9", "9">>,
                    <<"0", "0", "9">>, <<"1", "A">>}

\* sequence numbers handed to generateFromSequence
SequenceInputs == {1, 10, 100}

\* codes handed to increment, validate, parse and the extractors: codes in
\* the configured layout, the same without separators, without the second
\* separator, without a sequence part or with another prefix, and the empty
\* string
CodeInputs ==
  {Template(k, q) : k \in DateKeys, q \in SequenceStrings}
    \cup {prefix \o getDateKey \o <<"0", "0", "1">>,
          prefix \o separator \o getDateKey \o <<"0", "1">>,
          prefix \o separator \o getDateKey,
          <<"B">> \o separator \o getDateKey \o separator \o <<"0", "1">>,
          <<>>}

(* ------------------------------ actions -------------------------------- *)
Init ==
  /\ \E layout \in Layouts : prefix = layout[1] /\ separator = layout[2]
  /\ \E calendar \in Calendars :
       timeZone = calendar[1] /\ dateFormat = calendar[2]
  /\ sequentialLength \in 1..MaxInitialLength
  /\ lastGeneratedDate = Null
  /\ currentSequence = 0
  /\ now = FirstInstant
  /\ op = "new"
  /\ arg = NoArg
  /\ ret = NoRet
  /\ pre = Snapshot
  /\ issued = 0
  /\ other = NoGenerator
  /\ callers = NoCallers
  /\ returned = NoCodes
  /\ frames = NoFrames
  /\ dateString = Undefined

\* the system clock moves on
AdvanceClock ==
  /\ \E t \in Instants : t > now /\ now' = t
  /\ op' = "clock"
  /\ arg' = NoArg
  /\ ret' = NoRet
  /\ pre' = Snapshot
  /\ UNCHANGED <<config, sequentialLength, lastGeneratedDate, currentSequence,
                 issued>>
  /\ UNCHANGED sides

\* reset() that also takes sequentialLength back to one digit
ResetLength ==
  /\ currentSequence' = 0
  /\ lastGeneratedDate' = Null
  /\ sequentialLength' = 1
  /\ op' = "reset"
  /\ arg' = NoArg
  /\ ret' = NoRet
  /\ pre' = Snapshot
  /\ issued' = 0
  /\ UNCHANGED <<config, now>>
  /\ UNCHANGED sides

\* reset() that forgets the date and keeps the sequence
ResetDateOnly ==
  /\ lastGeneratedDate' = Null
  /\ op' = "reset"
  /\ arg' = NoArg
  /\ ret' = NoRet
  /\ pre' = Snapshot
  /\ issued' = 0
  /\ UNCHANGED <<config, sequentialLength, currentSequence, now>>
  /\ UNCHANGED sides

Reset ==
  /\ currentSequence' = 0
  /\ lastGeneratedDate' = Null
  /\ op' = "reset"
  /\ arg' = NoArg
  /\ ret' = NoRet
  /\ pre' = Snapshot
  /\ issued' = 0
  /\ UNCHANGED <<config, sequentialLength, now>>
  /\ UNCHANGED sides

\* the sequence number in a code that was composed with the date key
IssuedNumber(code, key) ==
  parseInt(substringFrom(code, Len(prefix) + Len(separator) + Len(key)
                                 + Len(separator)))

Generate ==
  LET result == generate(sequentialLength)
  IN /\ currentSequence < MaxSequence
     /\ currentSequence' = result.sequence
     /\ lastGeneratedDate' = result.date
     /\ sequentialLength' = result.sequentialLength
     /\ op' = "generate"
     /\ arg' = NoArg
     /\ ret' = CodeRet(result.code)
     /\ pre' = Snapshot
     /\ issued' = IssuedNumber(result.code, result.date)
     /\ UNCHANGED <<config, now>>
     /\ UNCHANGED sides

GenerateFromSequence ==
  \E sequence \in SequenceInputs,
     dateKey \in {Undefined, FormatInstant(FirstInstant, timeZone, dateFormat)} :
    LET result == generateFromSequence(sequence, dateKey, sequentialLength)
    IN /\ sequentialLength' = result.sequentialLength
       /\ op' = "generateFromSequence"
       /\ arg' = SequenceArg(sequence, dateKey)
       /\ ret' = CodeRet(result.code)
       /\ pre' = Snapshot
       /\ UNCHANGED <<config, lastGeneratedDate, currentSequence, now, issued>>
       /\ UNCHANGED sides

\* increment() that adopts the length of lastCode before it validates it
IncrementAdoptFirst ==
  \E lastCode \in CodeInputs :
    /\ IF validate(lastCode)
       THEN /\ sequentialLength' = increment(lastCode).sequentialLength
            /\ ret' = CodeRet(increment(lastCode).code)
       ELSE /\ sequentialLength' = adoptLength(lastCode)
            /\ ret' = Thrown
    /\ op' = "increment"
    /\ arg' = CodeArg(lastCode)
    /\ pre' = Snapshot
    /\ UNCHANGED <<config, lastGeneratedDate, currentSequence, now, issued>>
    /\ UNCHANGED sides

\* increment() of the positional-constructor class: a sequence part at the
\* maximum of the configured length is an error
IncrementLegacy ==
  \E lastCode \in CodeInputs :
    /\ IF validate(lastCode)
          /\ ~(extractDate(lastCode) = getDateKey
                /\ extractSequence(lastCode) >=
                     DigitsValue([i \in 1..sequentialLength |-> "9"]))
       THEN /\ sequentialLength' = increment(lastCode).sequentialLength
            /\ ret' = CodeRet(increment(lastCode).code)
       ELSE /\ sequentialLength' = sequentialLength
            /\ ret' = Thrown
    /\ op' = "increment"
    /\ arg' = CodeArg(lastCode)
    /\ pre' = Snapshot
    /\ UNCHANGED <<config, lastGeneratedDate, currentSequence, now, issued>>
    /\ UNCHANGED sides

Increment ==
  \E lastCode \in CodeInputs :
    /\ IF validate(lastCode)
       THEN /\ sequentialLength' = increment(lastCode).sequentialLength
            /\ ret' = CodeRet(increment(lastCode).code)
       ELSE /\ sequentialLength' = sequentialLength
            /\ ret' = Thrown
    /\ op' = "increment"
    /\ arg' = CodeArg(lastCode)
    /\ pre' = Snapshot
    /\ UNCHANGED <<config, lastGeneratedDate, currentSequence, now, issued>>
    /\ UNCHANGED sides

Validate ==
  \E code \in CodeInputs :
    /\ op' = "validate"
    /\ arg' = CodeArg(code)
    /\ ret' = BoolRet(validate(code))
    /\ pre' = Snapshot
    /\ UNCHANGED <<config, sequentialLength, lastGeneratedDate,
                   currentSequence, now, issued>>
    /\ UNCHANGED sides

\* parse() that does not validate the code
ParseUnchecked ==
  \E code \in CodeInputs :
    /\ op' = "parse"
    /\ arg' = CodeArg(code)
    /\ ret' = PartsRet(extractDate(code), extractSequence(code))
    /\ pre' = Snapshot
    /\ UNCHANGED <<config, sequentialLength, lastGeneratedDate,
                   currentSequence, now, issued>>
    /\ UNCHANGED sides

Parse ==
  \E code \in CodeInputs :
    /\ op' = "parse"
    /\ arg' = CodeArg(code)
    /\ ret' = IF validate(code)
              THEN PartsRet(extractDate(code), extractSequence(code))
              ELSE Thrown
    /\ pre' = Snapshot
    /\ UNCHANGED <<config, sequentialLength, lastGeneratedDate,
                   currentSequence, now, issued>>
    /\ UNCHANGED sides

ExtractDate ==
  \E code \in CodeInputs :
    /\ op' = "extractDate"
    /\ arg' = CodeArg(code)
    /\ ret' = CodeRet(extractDate(code))
    /\ pre' = Snapshot
    /\ UNCHANGED <<config, sequentialLength, lastGeneratedDate,
                   currentSequence, now, issued>>
    /\ UNCHANGED sides

ExtractSequence ==
  \E code \in CodeInputs :
    /\ op' = "extractSequence"
    /\ arg' = CodeArg(code)
    /\ ret' = NumberRet(extractSequence(code))
    /\ pre' = Snapshot
    /\ UNCHANGED <<config, sequentialLength, lastGeneratedDate,
                   currentSequence, now, issued>>
    /\ UNCHANGED sides

GetDateKey ==
  /\ op' = "getDateKey"
  /\ arg' = NoArg
  /\ ret' = CodeRet(getDateKey)
  /\ pre' = Snapshot
  /\ UNCHANGED <<config, sequentialLength, lastGeneratedDate,
                 currentSequence, now, issued>>
  /\ UNCHANGED sides

Next ==
  \/ AdvanceClock
  \/ Reset
  \/ Generate
  \/ GenerateFromSequence
  \/ Increment
  \/ Validate
  \/ Parse
  \/ ExtractDate
  \/ ExtractSequence
  \/ GetDateKey

Spec == Init /\ [][Next]_vars

(* ------------------ stateful and stateless side by side ---------------- *)
\* Two generators constructed with the same configuration, on an unchanged
\* date key. The stateless one is never asked to generate(): it is kept in
\* sequentialLength, the only field generateFromSequence and increment read
\* or write, and ret is the code it returned last. The stateful one is only
\* asked to generate(): its lastGeneratedDate and currentSequence are the
\* variables of these names, its sequentialLength and the code it returned
\* last are in other.
ModesInit ==
  /\ \E layout \in Layouts : prefix = layout[1] /\ separator = layout[2]
  /\ \E calendar \in Calendars :
       timeZone = calendar[1] /\ dateFormat = calendar[2]
  /\ sequentialLength \in 1..MaxInitialLength
  /\ lastGeneratedDate = Null
  /\ currentSequence = 0
  /\ now = FirstInstant
  /\ op = "new"
  /\ arg = NoArg
  /\ ret = NoRet
  /\ pre = Snapshot
  /\ issued = 0
  /\ other = [sequentialLength |-> sequentialLength, code |-> Undefined]
  /\ callers = NoCallers
  /\ returned = NoCodes
  /\ frames = NoFrames
  /\ dateString = Undefined

\* generate() on the stateful generator
StatefulGenerate ==
  LET result == generate(other.sequentialLength)
  IN /\ currentSequence' = result.sequence
     /\ lastGeneratedDate' = result.date
     /\ other' = [sequentialLength |-> result.sequentialLength,
                     code |-> result.code]
     /\ issued' = IssuedNumber(result.code, result.date)

\* both generators return their first code: generate() on the one,
\* generateFromSequence(1) on the other
FirstCodes ==
  /\ op = "new"
  /\ StatefulGenerate
  /\ LET result == generateFromSequence(1, Undefined, sequentialLength)
     IN /\ sequentialLength' = result.sequentialLength
        /\ ret' = CodeRet(result.code)
  /\ op' = "generateFromSequence"
  /\ arg' = SequenceArg(1, Undefined)
  /\ pre' = Snapshot
  /\ UNCHANGED <<config, now, callers>>
  /\ UNCHANGED extras

\* both generators return their next code: generate() on the one, increment
\* of the code returned last on the other
NextCodes ==
  /\ op # "new"
  /\ ret.kind = "code"
  /\ currentSequence < MaxCodes
  /\ StatefulGenerate
  /\ IF validate(ret.code)
     THEN /\ sequentialLength' = increment(ret.code).sequentialLength
          /\ ret' = CodeRet(increment(ret.code).code)
     ELSE /\ sequentialLength' = sequentialLength
          /\ ret' = Thrown
  /\ op' = "increment"
  /\ arg' = CodeArg(ret.code)
  /\ pre' = Snapshot
  /\ UNCHANGED <<config, now, callers>>
  /\ UNCHANGED extras

ModesNext ==
  \/ FirstCodes
  \/ NextCodes

SpecModes == ModesInit /\ [][ModesNext]_vars

(* ------------------ two generators, two histories ---------------------- *)
\* Two generators of the same configuration, each with its own
\* sequentialLength and its own history of generate() calls. The variables
\* are the generator in use and its last call; other is the generator set
\* aside, with its last call. The first generator is used, ends with an
\* increment and is set aside; the second is used and is handed the same
\* code.
Aside == [sequentialLength |-> sequentialLength,
          lastGeneratedDate |-> lastGeneratedDate,
          currentSequence |-> currentSequence,
          op |-> op, arg |-> arg, ret |-> ret, pre |-> pre]

PeersInit ==
  /\ \E layout \in Layouts : prefix = layout[1] /\ separator = layout[2]
  /\ \E calendar \in Calendars :
       timeZone = calendar[1] /\ dateFormat = calendar[2]
  /\ sequentialLength \in 1..MaxInitialLength
  /\ lastGeneratedDate = Null
  /\ currentSequence = 0
  /\ now = FirstInstant
  /\ op = "new"
  /\ arg = NoArg
  /\ ret = NoRet
  /\ pre = Snapshot
  /\ issued = 0
  /\ \E length \in 1..MaxInitialLength :
       other = [Aside EXCEPT !.sequentialLength = length,
                             !.pre.sequentialLength = length]
  /\ callers = NoCallers
  /\ returned = NoCodes
  /\ frames = NoFrames
  /\ dateString = Undefined

\* the history of the generator in use, before it is handed a code
PeerGenerate ==
  /\ op # "increment"
  /\ currentSequence < MaxHistory
  /\ Generate

PeerClock ==
  /\ op # "increment"
  /\ AdvanceClock

\* increment on the generator in use: of any code on the first generator, of
\* the code the first was handed on the second
PeerIncrement ==
  /\ op # "increment"
  /\ Increment
  /\ other.op = "increment" => arg'.code = other.arg.code

\* the first generator is set aside and the second is taken
Turn ==
  /\ op = "increment"
  /\ other.op = "new"
  /\ sequentialLength' = other.sequentialLength
  /\ lastGeneratedDate' = other.lastGeneratedDate
  /\ currentSequence' = other.currentSequence
  /\ op' = other.op
  /\ arg' = other.arg
  /\ ret' = other.ret
  /\ pre' = other.pre
  /\ other' = Aside
  /\ UNCHANGED <<config, now, issued, callers>>
  /\ UNCHANGED extras

PeersNext ==
  \/ PeerGenerate
  \/ PeerClock
  \/ PeerIncrement
  \/ Turn

SpecPeers == PeersInit /\ [][PeersNext]_vars

(* ------------- two generators, two histories, the same call ----------- *)
\* As above, with any of the calls that take their sequence from the caller
\* in the place of increment, and two generators constructed with the same
\* sequentialLength: the first is asked to generate(), ends with such a call
\* and is set aside; the second is never asked to generate() and makes the
\* same call, with the same arguments.
ComparedCalls == {"generateFromSequence", "increment", "validate",
                  "extractDate", "extractSequence"}

CallsInit ==
  /\ PeersInit
  /\ other.sequentialLength = sequentialLength

CallsGenerate ==
  /\ op \notin ComparedCalls
  /\ other.op = "new"
  /\ currentSequence < MaxHistory
  /\ Generate

CallsClock ==
  /\ op \notin ComparedCalls
  /\ AdvanceClock

ComparedCall ==
  /\ op \notin ComparedCalls
  /\ \/ GenerateFromSequence
     \/ Increment
     \/ Validate
     \/ ExtractDate
     \/ ExtractSequence
  /\ other.op \in ComparedCalls => (op' = other.op /\ arg' = other.arg)

\* the first generator is set aside and the second is taken
CallsTurn ==
  /\ op \in ComparedCalls
  /\ other.op = "new"
  /\ sequentialLength' = other.sequentialLength
  /\ lastGeneratedDate' = other.lastGeneratedDate
  /\ currentSequence' = other.currentSequence
  /\ op' = other.op
  /\ arg' = other.arg
  /\ ret' = other.ret
  /\ pre' = other.pre
  /\ other' = Aside
  /\ UNCHANGED <<config, now, issued, callers>>
  /\ UNCHANGED extras

CallsNext ==
  \/ CallsGenerate
  \/ CallsClock
  \/ ComparedCall
  \/ CallsTurn

SpecCalls == CallsInit /\ [][CallsNext]_vars

(* ------------------- generate() calls not serialized ------------------- *)
\* Two callers of generate() on one generator whose calls may overlap: a call
\* evaluates the right-hand side of line 114 (CallerRead) and later assigns
\* it and runs to its return (CallerStore). callers[c].before is the set of
\* callers whose call had stored when c read.
Callers == {1, 2}

Idle == [pc |-> "idle", date |-> Undefined, sequence |-> 0, before |-> {},
         code |-> Undefined]

AllIdle == \A c \in Callers : callers[c].pc = "idle"

CallersInit ==
  /\ \E layout \in Layouts : prefix = layout[1] /\ separator = layout[2]
  /\ \E calendar \in Calendars :
       timeZone = calendar[1] /\ dateFormat = calendar[2]
  /\ sequentialLength \in 1..MaxInitialLength
  /\ lastGeneratedDate = Null
  /\ currentSequence = 0
  /\ now = FirstInstant
  /\ op = "new"
  /\ arg = NoArg
  /\ ret = NoRet
  /\ pre = Snapshot
  /\ issued = 0
  /\ other = NoGenerator
  /\ callers = [c \in Callers |-> Idle]
  /\ returned = NoCodes
  /\ frames = NoFrames
  /\ dateString = Undefined

\* generate() calls that ran alone, before the two callers arrive
GenerateAlone ==
  /\ AllIdle
  /\ Generate

\* lines 112-114: the date key and the value of the right-hand side
CallerRead(c) ==
  /\ callers[c].pc = "idle"
  /\ callers' = [callers EXCEPT ![c] =
                   [pc |-> "read",
                    date |-> getDateKey,
                    sequence |-> NextSequence(getDateKey),
                    before |-> {d \in Callers : callers[d].pc = "done"},
                    code |-> Undefined]]
  /\ op' = "read"
  /\ arg' = NoArg
  /\ ret' = NoRet
  /\ pre' = Snapshot
  /\ UNCHANGED <<config, sequentialLength, lastGeneratedDate, currentSequence,
                 now, issued, other>>
  /\ UNCHANGED extras

\* the store of a call that evaluates line 114 anew when it assigns
CallerStoreFresh(c) ==
  LET result == generate(sequentialLength)
  IN /\ callers[c].pc = "read"
     /\ currentSequence' = result.sequence
     /\ lastGeneratedDate' = result.date
     /\ sequentialLength' = result.sequentialLength
     /\ callers' = [callers EXCEPT ![c].pc = "done",
                                   ![c].sequence = result.sequence,
                                   ![c].code = result.code]
     /\ op' = "generate"
     /\ arg' = NoArg
     /\ ret' = CodeRet(result.code)
     /\ pre' = Snapshot
     /\ issued' = IssuedNumber(result.code, result.date)
     /\ UNCHANGED <<config, now, other>>
     /\ UNCHANGED extras

\* lines 114-125: the assignments and the rest of the call up to its return
CallerStore(c) ==
  LET result == generateCode(callers[c].sequence, callers[c].date,
                             sequentialLength)
  IN /\ callers[c].pc = "read"
     /\ currentSequence' = callers[c].sequence
     /\ lastGeneratedDate' = callers[c].date
     /\ sequentialLength' = result.sequentialLength
     /\ callers' = [callers EXCEPT ![c].pc = "done", ![c].code = result.code]
     /\ op' = "generate"
     /\ arg' = NoArg
     /\ ret' = CodeRet(result.code)
     /\ pre' = Snapshot
     /\ issued' = IssuedNumber(result.code, callers[c].date)
     /\ UNCHANGED <<config, now, other>>
     /\ UNCHANGED extras

CallersNext ==
  \/ GenerateAlone
  \/ \E c \in Callers : CallerRead(c)
  \/ \E c \in Callers : CallerStore(c)

SpecCallers == CallersInit /\ [][CallersNext]_vars

(* ------------------------- days in time zones -------------------------- *)
\* the clock around midnight in Asia/Bangkok and around the start of daylight
\* saving time in America/New_York: the 9th at 06:00Z and at 08:00Z besides
\* the instants above
ZoneInstants == Instants \cup {222, 224}

ZoneCalendars == Calendars \cup {<<"America/New_York", "DD">>}

ZonesInit ==
  /\ \E layout \in Layouts : prefix = layout[1] /\ separator = layout[2]
  /\ \E calendar \in ZoneCalendars :
       timeZone = calendar[1] /\ dateFormat = calendar[2]
  /\ sequentialLength \in 1..MaxInitialLength
  /\ lastGeneratedDate = Null
  /\ currentSequence = 0
  /\ now \in ZoneInstants
  /\ op = "new"
  /\ arg = NoArg
  /\ ret = NoRet
  /\ pre = Snapshot
  /\ issued = 0
  /\ other = NoGenerator
  /\ callers = NoCallers
  /\ returned = NoCodes
  /\ frames = NoFrames
  /\ dateString = Undefined

ZonesClock ==
  /\ \E t \in ZoneInstants : t > now /\ now' = t
  /\ op' = "clock"
  /\ arg' = NoArg
  /\ ret' = NoRet
  /\ pre' = Snapshot
  /\ UNCHANGED <<config, sequentialLength, lastGeneratedDate, currentSequence,
                 issued>>
  /\ UNCHANGED sides

ZonesNext ==
  \/ ZonesClock
  \/ Generate

SpecZones == ZonesInit /\ [][ZonesNext]_vars

(* ---------------------- the codes of one generator -------------------- *)
\* One generator that is never reset: every code generate() returns is kept
\* in returned. Between the generate() calls the clock moves on and
\* generateFromSequence and increment are called with arguments that make
\* sequentialLength grow. The date format is one that gives every instant a
\* key of the same length.
HistoryCalendars == {calendar \in Calendars : calendar[2] = "DD"}

HistoryInit ==
  /\ \E layout \in Layouts : prefix = layout[1] /\ separator = layout[2]
  /\ \E calendar \in HistoryCalendars :
       timeZone = calendar[1] /\ dateFormat = calendar[2]
  /\ sequentialLength \in 1..MaxInitialLength
  /\ lastGeneratedDate = Null
  /\ currentSequence = 0
  /\ now = FirstInstant
  /\ op = "new"
  /\ arg = NoArg
  /\ ret = NoRet
  /\ pre = Snapshot
  /\ issued = 0
  /\ other = NoGenerator
  /\ callers = NoCallers
  /\ returned = NoCodes
  /\ frames = NoFrames
  /\ dateString = Undefined

\* the system clock moves on to an instant of another day
HistoryClock ==
  /\ \E t \in Instants :
       /\ t > now
       /\ FormatInstant(t, timeZone, dateFormat) # getDateKey
       /\ now' = t
  /\ op' = "clock"
  /\ arg' = NoArg
  /\ ret' = NoRet
  /\ pre' = Snapshot
  /\ UNCHANGED <<config, sequentialLength, lastGeneratedDate, currentSequence,
                 issued>>
  /\ UNCHANGED sides

\* generate(), its code appended to returned
RecordedGenerate ==
  LET result == generate(sequentialLength)
  IN /\ currentSequence < MaxSequence
     /\ Len(returned) < MaxReturned
     /\ currentSequence' = result.sequence
     /\ lastGeneratedDate' = result.date
     /\ sequentialLength' = result.sequentialLength
     /\ op' = "generate"
     /\ arg' = NoArg
     /\ ret' = CodeRet(result.code)
     /\ pre' = Snapshot
     /\ issued' = IssuedNumber(result.code, result.date)
     /\ returned' = Append(returned, result.code)
     /\ UNCHANGED <<config, now, other, callers, frames, dateString>>

\* a generateFromSequence call that grows sequentialLength
GrowFromSequence ==
  /\ GenerateFromSequence
  /\ sequentialLength' > sequentialLength

\* an increment call that grows sequentialLength
GrowIncrement ==
  /\ Increment
  /\ sequentialLength' > sequentialLength

HistoryNext ==
  \/ HistoryClock
  \/ RecordedGenerate
  \/ GrowFromSequence
  \/ GrowIncrement

SpecHistory == HistoryInit /\ [][HistoryNext]_vars

(* ------------- generateFromSequence, activation by activation ---------- *)
\* A call of generateFromSequence, generate or increment is followed through
\* the activations of generateFromSequence it makes: frames holds the
\* arguments of those that have not returned, the innermost last. ret is
\* NoRet while the call is in progress.
Frame(sequence, dateKey) == [sequence |-> sequence, dateKey |-> dateKey]

\* sequence numbers handed to generateFromSequence: up to three digits more
\* than sequentialLength
FrameSequences == SequenceInputs \cup {1000}

FramesInit ==
  /\ \E layout \in Layouts : prefix = layout[1] /\ separator = layout[2]
  /\ \E calendar \in Calendars :
       timeZone = calendar[1] /\ dateFormat = calendar[2]
  /\ sequentialLength \in 1..MaxInitialLength
  /\ lastGeneratedDate = Null
  /\ currentSequence = 0
  /\ now = FirstInstant
  /\ op = "new"
  /\ arg = NoArg
  /\ ret = NoRet
  /\ pre = Snapshot
  /\ issued = 0
  /\ other = NoGenerator
  /\ callers = NoCallers
  /\ returned = NoCodes
  /\ frames = NoFrames
  /\ dateString = Undefined

FramesClock ==
  /\ frames = NoFrames
  /\ AdvanceClock

\* generateFromSequence(sequence, dateKey) is called
FramesCall ==
  \E sequence \in FrameSequences,
     dateKey \in {Undefined, FormatInstant(FirstInstant, timeZone, dateFormat)} :
    /\ frames = NoFrames
    /\ frames' = <<Frame(sequence, dateKey)>>
    /\ op' = "generateFromSequence"
    /\ arg' = SequenceArg(sequence, dateKey)
    /\ ret' = NoRet
    /\ pre' = Snapshot
    /\ UNCHANGED <<config, sequentialLength, lastGeneratedDate,
                   currentSequence, now, issued, other, callers, returned,
                   dateString>>

\* generate() up to its return or its call of generateFromSequence
FramesGenerate ==
  LET currentDate == getDateKey
      sequence == NextSequence(currentDate)
      sequenceString == padStart(String(sequence), sequentialLength)
  IN /\ frames = NoFrames
     /\ currentSequence < MaxSequence
     /\ currentSequence' = sequence
     /\ lastGeneratedDate' = currentDate
     /\ IF Len(sequenceString) > sequentialLength
        THEN /\ sequentialLength' = sequentialLength + 1
             /\ frames' = <<Frame(1, currentDate)>>
             /\ ret' = NoRet
             /\ issued' = issued
        ELSE /\ sequentialLength' = sequentialLength
             /\ frames' = NoFrames
             /\ ret' = CodeRet(Template(currentDate, sequenceString))
             /\ issued' = sequence
     /\ op' = "generate"
     /\ arg' = NoArg
     /\ pre' = Snapshot
     /\ UNCHANGED <<config, now, other, callers, returned, dateString>>

\* increment(lastCode) up to its throw or its call of generateFromSequence
FramesIncrement ==
  \E lastCode \in CodeInputs :
    /\ frames = NoFrames
    /\ IF validate(lastCode)
       THEN IF extractDate(lastCode) = getDateKey
            THEN /\ sequentialLength' = adoptLength(lastCode)
                 /\ frames' = <<Frame(PlusOne(extractSequence(lastCode)),
                                      getDateKey)>>
                 /\ ret' = NoRet
            ELSE /\ sequentialLength' = sequentialLength
                 /\ frames' = <<Frame(1, getDateKey)>>
                 /\ ret' = NoRet
       ELSE /\ sequentialLength' = sequentialLength
            /\ frames' = NoFrames
            /\ ret' = Thrown
    /\ op' = "increment"
    /\ arg' = CodeArg(lastCode)
    /\ pre' = Snapshot
    /\ UNCHANGED <<config, lastGeneratedDate, currentSequence, now, issued,
                   other, callers, returned, dateString>>

\* the innermost activation with the overflow fixed as the Known Issues
\* propose: it calls itself with the same sequence
FrameStepKeep ==
  /\ frames # NoFrames
  /\ LET frame == frames[Len(frames)]
         currentKey == IF frame.dateKey = Undefined \/ frame.dateKey = <<>>
                       THEN getDateKey ELSE frame.dateKey
         sequenceString == padStart(String(frame.sequence), sequentialLength)
     IN IF Len(sequenceString) > sequentialLength
        THEN /\ sequentialLength' = sequentialLength + 1
             /\ frames' = Append(frames, Frame(frame.sequence, currentKey))
             /\ ret' = ret
             /\ issued' = issued
        ELSE /\ sequentialLength' = sequentialLength
             /\ frames' = NoFrames
             /\ ret' = CodeRet(Template(currentKey, sequenceString))
             /\ issued' = IF op = "generate" THEN frame.sequence ELSE issued
  /\ UNCHANGED <<config, lastGeneratedDate, currentSequence, now, op, arg,
                 pre, other, callers, returned, dateString>>

\* the innermost activation of generateFromSequence, lines 269-278: it calls
\* itself, or it returns and with it every activation that waits for it
FrameStep ==
  /\ frames # NoFrames
  /\ LET frame == frames[Len(frames)]
         currentKey == IF frame.dateKey = Undefined \/ frame.dateKey = <<>>
                       THEN getDateKey ELSE frame.dateKey
         sequenceString == padStart(String(frame.sequence), sequentialLength)
     IN IF Len(sequenceString) > sequentialLength
        THEN /\ sequentialLength' = sequentialLength + 1
             /\ frames' = Append(frames, Frame(1, currentKey))
             /\ ret' = ret
             /\ issued' = issued
        ELSE /\ sequentialLength' = sequentialLength
             /\ frames' = NoFrames
             /\ ret' = CodeRet(Template(currentKey, sequenceString))
             /\ issued' = IF op = "generate" THEN frame.sequence ELSE issued
  /\ UNCHANGED <<config, lastGeneratedDate, currentSequence, now, op, arg,
                 pre, other, callers, returned, dateString>>

FramesNext ==
  \/ FramesClock
  \/ FramesCall
  \/ FramesGenerate
  \/ FramesIncrement
  \/ FrameStep

\* an activation that has started runs on
SpecFrames == FramesInit /\ [][FramesNext]_vars /\ WF_vars(FrameStep)

(* ------------------ the positional-constructor class ------------------ *)
\* new SequentialGenerator(prefix, timeZone, dateFormat): prefix, timeZone and
\* dateString are its fields; the fields of the class above are idle.
MaximumReached == <<"Maximum number reached. Cannot increment.">>
CurrentCodeRequired == <<"currentCode is required">>
CodeRequired == <<"code is required">>

ThrownWith(message) ==
  [kind |-> "error", code |-> message, number |-> 0, bool |-> FALSE]

\* the prefixes the generators are constructed with
LegacyPrefixes == {<<"S", "E", "X">>, <<"A", "B">>}

LegacyTimeZones == {"Asia/Bangkok", "UTC"}

\* increment(currentCode): what it returns or throws
legacyIncrement(currentCode) ==
  LET sequenceNumber == substringFrom(currentCode, 9)
      codeBase == substring(currentCode, 0, 9)
      number == Number(sequenceNumber)
      max == 9999
      nextSequence == padStart(String(PlusOne(number)), 4)
  IN IF currentCode = <<>> THEN ThrownWith(CurrentCodeRequired)
     ELSE IF number = max THEN ThrownWith(MaximumReached)
     ELSE CodeRet(codeBase \o nextSequence)

\* sequence parts of the codes handed to the generator
LegacySequenceStrings ==
  {<<"0", "0", "0", "1">>, <<"0", "0", "9", "9">>, <<"9", "9", "9", "9">>,
   <<"9", "9", "9">>, <<"1", "0", "0", "0", "0">>, <<"1", "A">>, <<>>}

\* codes handed to the generator: its prefix, the date of an instant and a
\* sequence part; and the empty string
LegacyCodes ==
  {prefix \o FormatInstant(t, timeZone, dateFormat) \o q :
     t \in Instants, q \in LegacySequenceStrings} \cup {<<>>}

LegacyInit ==
  /\ prefix \in LegacyPrefixes
  /\ timeZone \in LegacyTimeZones
  /\ dateFormat = "YYMMDD"
  /\ now = FirstInstant
  /\ dateString = FormatInstant(now, timeZone, dateFormat)
  /\ separator = <<>>
  /\ sequentialLength = 0
  /\ lastGeneratedDate = Null
  /\ currentSequence = 0
  /\ op = "new"
  /\ arg = NoArg
  /\ ret = NoRet
  /\ pre = Snapshot
  /\ issued = 0
  /\ other = NoGenerator
  /\ callers = NoCallers
  /\ returned = NoCodes
  /\ frames = NoFrames

LegacyGenerate ==
  /\ op' = "generate"
  /\ arg' = NoArg
  /\ ret' = CodeRet(prefix \o dateString \o <<"0", "0", "0", "1">>)
  /\ pre' = Snapshot
  /\ UNCHANGED <<config, sequentialLength, lastGeneratedDate,
                 currentSequence, now, issued>>
  /\ UNCHANGED sides

\* validate(code): dayjs's reading of the six characters without a parsing
\* plugin is left open, so a code with the prefix is accepted or not
LegacyValidate ==
  \E code \in LegacyCodes, same \in BOOLEAN :
    /\ op' = "validate"
    /\ arg' = CodeArg(code)
    /\ ret' = IF code = <<>> THEN ThrownWith(CodeRequired)
              ELSE BoolRet(substring(code, 0, 3) = prefix /\ same)
    /\ pre' = Snapshot
    /\ UNCHANGED <<config, sequentialLength, lastGeneratedDate,
                   currentSequence, now, issued>>
    /\ UNCHANGED sides

LegacyIncrement ==
  \E currentCode \in LegacyCodes :
    /\ op' = "increment"
    /\ arg' = CodeArg(currentCode)
    /\ ret' = legacyIncrement(currentCode)
    /\ pre' = Snapshot
    /\ UNCHANGED <<config, sequentialLength, lastGeneratedDate,
                   currentSequence, now, issued>>
    /\ UNCHANGED sides

LegacyNext ==
  \/ AdvanceClock
  \/ LegacyGenerate
  \/ LegacyValidate
  \/ LegacyIncrement

SpecLegacy == LegacyInit /\ [][LegacyNext]_vars

(* ------------------------------ claims --------------------------------- *)
\* the date key a generateFromSequence call composes its code with
GivenKey == IF arg.dateKey = Undefined THEN getDateKey ELSE arg.dateKey

\* the characters of code after prefix, separator, key and separator
SequencePartAfter(code, key) ==
  substringFrom(code, Len(prefix) + Len(separator) + Len(key) + Len(separator))

\* code is prefix, separator, key, separator and a part with the value n
Carries(code, key, n) ==
  /\ startsWith(code, prefix \o separator \o key \o separator)
  /\ parseInt(SequencePartAfter(code, key)) = n

\* the sequence part of a code as the generator recovers it
RecoveredSequencePart(code) ==
  IF separator # <<>>
  THEN substringFrom(code, lastIndexOf(code, separator) + Len(separator))
  ELSE substringFrom(code, Len(prefix) + getDateFormatLength)

AllNines(s) == Len(s) >= 1 /\ \A i \in 1..Len(s) : s[i] = "9"

\* the last call was an increment of a code that validate accepts
Incremented == op = "increment" /\ ret.kind = "code"

\* C1: on an unchanged date key every generate() returns a code whose sequence
\* number is one more than that of the previous generate(), and the first
\* generate() of a fresh instance returns 1
C1_SameKeyCountsUp ==
  [][Generate =>
       /\ (lastGeneratedDate = getDateKey => issued' = issued + 1)
       /\ (lastGeneratedDate = Null => issued' = 1)]_vars

\* C2: a generate() whose date key differs from lastGeneratedDate returns the
\* code of the new key with sequence 1 and stores that key and sequence 1
C2_ResetOnDateChange ==
  (op = "generate" /\ pre.lastGeneratedDate # getDateKey) =>
    /\ ret.code = Template(getDateKey, padStart(<<"1">>, pre.sequentialLength))
    /\ lastGeneratedDate = getDateKey
    /\ currentSequence = 1

C2_Witness ==
  /\ op = "generate"
  /\ pre.lastGeneratedDate \notin {Null, getDateKey}
  /\ pre.currentSequence > 1
  /\ currentSequence = 1

\* C3: a generate() whose sequence needs more digits than sequentialLength
\* grows sequentialLength by 1 and returns the code carrying that sequence
C3_OverflowKeepsValue ==
  (/\ op = "generate"
   /\ pre.lastGeneratedDate = getDateKey
   /\ Len(String(currentSequence)) > pre.sequentialLength) =>
    /\ sequentialLength = pre.sequentialLength + 1
    /\ ret.code = Template(getDateKey,
                           padStart(String(currentSequence), sequentialLength))

C5_GenerateReproducible ==
  op = "generate" =>
    ret.code = generateFromSequence(currentSequence, lastGeneratedDate,
                                    sequentialLength).code

\* C6: generateFromSequence(n, k) returns prefix, separator, k, separator and
\* the digits of n left-padded with zeros to sequentialLength
C6_FromSequencePadsGivenValue ==
  op = "generateFromSequence" =>
    ret.code = Template(GivenKey,
                        padStart(String(arg.sequence), pre.sequentialLength))

\* C7: extractSequence(generateFromSequence(n)) = n and
\* extractDate(generateFromSequence(n)) = getDateKey()
C7_RoundTrip ==
  (op = "generateFromSequence" /\ arg.dateKey = Undefined) =>
    /\ extractSequence(ret.code) = arg.sequence
    /\ extractDate(ret.code) = getDateKey

\* C8: increment of an accepted code of the current date returns the code of
\* the same prefix, separator and date with the sequence number plus 1
C8_IncrementContinues ==
  (Incremented /\ extractDate(arg.code) = getDateKey) =>
    Carries(ret.code, getDateKey, extractSequence(arg.code) + 1)

C10_IncrementRollover ==
  (Incremented /\ extractDate(arg.code) # getDateKey) =>
    /\ ret.code = Template(getDateKey, padStart(<<"1">>, pre.sequentialLength))
    /\ sequentialLength = pre.sequentialLength

C10_Witness ==
  /\ Incremented
  /\ extractDate(arg.code) # getDateKey
  /\ Len(RecoveredSequencePart(arg.code)) > pre.sequentialLength
  /\ ret.code = Template(getDateKey, padStart(<<"1">>, pre.sequentialLength))

\* the last call was increment of an accepted code of the current date whose
\* sequence part has more digits than sequentialLength had
IncrementedLonger ==
  /\ Incremented
  /\ extractDate(arg.code) = getDateKey
  /\ Len(RecoveredSequencePart(arg.code)) > pre.sequentialLength

\* C11: increment of an accepted code of the current date whose sequence part
\* has more digits than sequentialLength returns a code whose sequence part
\* (what follows prefix, separator, date key, separator) has at least as many
\* digits, leaves sequentialLength at least that large, and no step makes
\* sequentialLength smaller than it was before the step
C11_IncrementKeepsLength ==
  /\ IncrementedLonger =>
       /\ Len(SequencePartAfter(ret.code, getDateKey)) >=
            Len(RecoveredSequencePart(arg.code))
       /\ sequentialLength >= Len(RecoveredSequencePart(arg.code))
  /\ sequentialLength >= pre.sequentialLength

C11_Witness ==
  /\ IncrementedLonger
  /\ Len(RecoveredSequencePart(arg.code)) = 3
  /\ pre.sequentialLength = 1
  /\ sequentialLength = 3

\* C12: increment and parse throw exactly when validate rejects the code; for
\* a code that validate accepts increment returns a code and parse returns
\* the parts
C12_ErrorIffInvalid ==
  /\ op = "increment" =>
       ret.kind = (IF validate(arg.code) THEN "code" ELSE "error")
  /\ op = "parse" =>
       ret.kind = (IF validate(arg.code) THEN "parts" ELSE "error")

C12_Witness ==
  /\ op = "parse"
  /\ ret.kind = "parts"
  /\ extractDate(arg.code) # getDateKey
  /\ pre.currentSequence > 0

\* a call of increment or parse that threw
Failed == op \in {"increment", "parse"} /\ ret.kind = "error"

\* C13: an increment or parse that throws leaves lastGeneratedDate,
\* currentSequence and sequentialLength as they were before the call
C13_FailureKeepsState ==
  Failed =>
    /\ lastGeneratedDate = pre.lastGeneratedDate
    /\ currentSequence = pre.currentSequence
    /\ sequentialLength = pre.sequentialLength

C13_Witness ==
  /\ op = "increment"
  /\ ret.kind = "error"
  /\ pre.currentSequence > 0
  /\ arg.code # <<>>
  /\ Len(RecoveredSequencePart(arg.code)) > pre.sequentialLength

\* the calls the specification describes as not touching the sequence state
StatelessOps ==
  {"generateFromSequence", "increment", "validate", "parse", "extractDate",
   "extractSequence", "getDateKey"}

\* the sequence number in the code generate() returns when it is called with
\* sequentialLength at length
NextIssued(length) == IssuedNumber(generate(length).code, getDateKey)

C15_LengthNeverShrinks ==
  /\ pre.sequentialLength <= sequentialLength
  /\ op = "reset" => sequentialLength = pre.sequentialLength

C15_Witness ==
  /\ op = "reset"
  /\ pre.currentSequence > 0
  /\ sequentialLength = MaxInitialLength + 1

\* C16: reset() sets lastGeneratedDate to null and currentSequence to 0 and
\* leaves the configuration, sequentialLength and the clock alone; a
\* generate() called right after it, on the date key of before the reset as on
\* any other, returns sequence 1
C16_ResetClearsSequenceOnly ==
  [][/\ op' = "reset" =>
          /\ lastGeneratedDate' = Null
          /\ currentSequence' = 0
          /\ UNCHANGED <<config, sequentialLength, now>>
     /\ (op = "reset" /\ op' = "generate") =>
          /\ issued' = 1
          /\ currentSequence' = 1]_vars

C16_Witness ==
  /\ op = "reset"
  /\ pre.lastGeneratedDate = getDateKey
  /\ pre.currentSequence > 1
  /\ NextIssued(sequentialLength) = 1

\* the positions in code at which an occurrence of the separator ends
SeparatorEnds(code) ==
  {i \in Len(separator)..Len(code) :
     SubSeq(code, i - Len(separator) + 1, i) = separator}

\* the sequence segment of the segment-recovery rule: what follows the last
\* occurrence of the separator, or without a separator what follows the
\* prefix and as many characters as the formatted date has
HasSequenceSegment(code) == separator = <<>> \/ SeparatorEnds(code) # {}

SequenceSegment(code) ==
  IF separator = <<>>
  THEN SubSeq(code, Len(prefix) + getDateFormatLength + 1, Len(code))
  ELSE LET last == CHOOSE i \in SeparatorEnds(code) :
                     \A j \in SeparatorEnds(code) : j <= i
       IN SubSeq(code, last + 1, Len(code))

DecimalDigits(s) ==
  /\ s # <<>>
  /\ \A i \in 1..Len(s) :
       s[i] \in {"0", "1", "2", "3", "4", "5", "6", "7", "8", "9"}

C18_ReturnedCodeIsValid ==
  (/\ op \in {"generate", "generateFromSequence", "increment"}
   /\ ret.kind = "code"
   /\ Len(GivenKey) = getDateFormatLength) =>
    validate(ret.code)

\* C19: for a code that validate accepts, parse returns the date of
\* extractDate and the sequence of extractSequence, the sequence is a
\* non-negative integer, and prefix, separator, date, separator and the
\* sequence padded to the length of the code's sequence segment are the code
C19_ParseComposesBack ==
  (op = "parse" /\ ret.kind = "parts") =>
    /\ ret.code = extractDate(arg.code)
    /\ ret.number = extractSequence(arg.code)
    /\ ret.number >= 0
    /\ Template(ret.code, padStart(String(ret.number),
                                   Len(SequenceSegment(arg.code)))) = arg.code

LastSeparatorStart(code) ==
  (CHOOSE i \in SeparatorEnds(code) : \A j \in SeparatorEnds(code) : j <= i)
    - Len(separator)

\* the characters of code from index from up to, not including, index to
Between(code, from, to) == [i \in 1..(Min(to, Len(code)) - from) |-> code[from + i]]

\* the date part of code read by the length of the formatted date
DateByLength(code) ==
  Between(code, Len(prefix) + Len(separator),
          Len(prefix) + Len(separator) + getDateFormatLength)

\* C21: with a separator, extractSequence returns the value of the digits
\* after the last occurrence of the separator in the code; extractDate
\* returns what lies between index len(prefix) + len(separator) and that last
\* occurrence if it starts after that index, and else as many characters
\* from that index as the formatted date has
C21_SeparatorSplit ==
  /\ (/\ op = "extractSequence"
      /\ separator # <<>>
      /\ HasSequenceSegment(arg.code)
      /\ DecimalDigits(SequenceSegment(arg.code))) =>
       ret.number = DigitsValue(SequenceSegment(arg.code))
  /\ (op = "extractDate" /\ separator # <<>>) =>
       ret.code =
         IF /\ SeparatorEnds(arg.code) # {}
            /\ LastSeparatorStart(arg.code) > Len(prefix) + Len(separator)
         THEN Between(arg.code, Len(prefix) + Len(separator),
                      LastSeparatorStart(arg.code))
         ELSE DateByLength(arg.code)

C21_Witness ==
  /\ op = "extractDate"
  /\ prefix = <<"A", "-">>
  /\ separator = <<"-">>
  /\ arg.code = prefix \o separator \o getDateKey
  /\ ret.code = getDateKey

\* C22: without a separator, extractDate returns the characters of the code
\* from index len(prefix) on, as many as the formatted date has, and
\* extractSequence returns the value of the digits that follow them, whatever
\* sequentialLength is
C22_LengthSplit ==
  /\ (op = "extractDate" /\ separator = <<>>) =>
       /\ ret.code = DateByLength(arg.code)
       /\ Len(arg.code) >= Len(prefix) + getDateFormatLength =>
            Len(ret.code) = getDateFormatLength
  /\ (/\ op = "extractSequence"
      /\ separator = <<>>
      /\ DecimalDigits(SequenceSegment(arg.code))) =>
       ret.number = DigitsValue(SequenceSegment(arg.code))

C22_Witness ==
  /\ op = "extractSequence"
  /\ separator = <<>>
  /\ prefix # <<>>
  /\ Len(SequenceSegment(arg.code)) > sequentialLength
  /\ ret.number = 9

\* C23: the k-th code of generate() on a new generator is the k-th code of
\* generateFromSequence(1) followed by increment of the previous code on
\* another new generator of the same configuration, for every k
C23_ModesAgree ==
  op \in {"generateFromSequence", "increment"} =>
    /\ ret.kind = "code"
    /\ ret.code = other.code

\* the day of the month as the date key shows it
DayKey(day) == IF dateFormat = "DD" THEN padStart(String(day), 2) ELSE String(day)

\* generate() was called now and its code is of the given day and sequence
GeneratedOn(day, n) ==
  /\ lastGeneratedDate = DayKey(day)
  /\ currentSequence = n
  /\ startsWith(ret.code, prefix \o separator \o DayKey(day) \o separator)

\* C24: the date key is the day in the configured time zone. In
\* Asia/Bangkok (UTC+7) the 9th at 16:00Z is the 9th and the 9th at 17:00Z is
\* the 10th, so a generate() at 17:00Z after one on the 9th returns the key
\* of the 10th with sequence 1, while in UTC it continues the 9th; in
\* America/New_York every instant of the 9th local day, before and after
\* daylight saving time starts, gives the key of the 9th, and the sequence
\* continues
C24_LocalDay ==
  (op = "generate" /\ pre.lastGeneratedDate = DayKey(9)) =>
    /\ (timeZone = "Asia/Bangkok" /\ now = 232) =>
         GeneratedOn(9, pre.currentSequence + 1)
    /\ (timeZone = "Asia/Bangkok" /\ now = 233) =>
         GeneratedOn(10, 1) /\ issued = 1
    /\ (timeZone = "UTC" /\ now = 233) =>
         GeneratedOn(9, pre.currentSequence + 1)
    /\ (timeZone = "America/New_York" /\ now \in {222, 224, 232, 233}) =>
         GeneratedOn(9, pre.currentSequence + 1)

C24_Witness ==
  /\ op = "generate"
  /\ timeZone = "Asia/Bangkok"
  /\ now = 233
  /\ pre.lastGeneratedDate = DayKey(9)
  /\ pre.currentSequence > 1
  /\ GeneratedOn(10, 1)

\* C25: after generateFromSequence(n, k) sequentialLength is at least the
\* number of digits of n
C25_LengthFitsGivenSequence ==
  op = "generateFromSequence" => sequentialLength >= Len(String(arg.sequence))

\* C26: generate() calls under one date key with no reset() between them
\* return different sequence numbers, as extractSequence reads them: the
\* first call under a key returns sequence 1, so no later one does
C26_NoSequenceTwice ==
  (op = "generate" /\ pre.lastGeneratedDate = getDateKey) =>
    extractSequence(ret.code) # 1

\* the last n characters of code
LastChars(code, n) == SubSeq(code, Max(1, Len(code) - n + 1), Len(code))

\* a separator is configured and the code of the last call holds none
SeparatorMissing == separator # <<>> /\ SeparatorEnds(arg.code) = {}

\* C27: for a code without any occurrence of the configured separator,
\* extractSequence returns the value of the last sequentialLength characters
\* of the code and validate returns false
C27_MissingSeparator ==
  /\ (/\ op = "extractSequence"
      /\ SeparatorMissing
      /\ DecimalDigits(LastChars(arg.code, sequentialLength))) =>
       ret.number = DigitsValue(LastChars(arg.code, sequentialLength))
  /\ (op = "validate" /\ SeparatorMissing) => ~ret.bool

C27_Witness ==
  /\ op = "extractSequence"
  /\ SeparatorMissing
  /\ sequentialLength = MaxInitialLength + 1
  /\ Len(arg.code) > sequentialLength
  /\ ret.number = 1

\* both callers' generate() calls have returned
BothReturned == \A c \in Callers : callers[c].pc = "done"

\* neither call had stored when the other read
Overlapped == 2 \notin callers[1].before /\ 1 \notin callers[2].before

KeyAt(t) == FormatInstant(t, timeZone, dateFormat)

\* both generators were handed the same code under the same date key while
\* their sequentialLength was the same
SameIncrement ==
  /\ op = "increment"
  /\ other.op = "increment"
  /\ arg.code = other.arg.code
  /\ pre.sequentialLength = other.pre.sequentialLength
  /\ KeyAt(pre.now) = KeyAt(other.pre.now)

\* C29: two generators of equal configuration and sequentialLength that are
\* handed the same code under the same date key return the same code from
\* increment (or both throw), whatever their histories are
C29_SameCodeSameNext ==
  SameIncrement => ret = other.ret

C29_Witness ==
  /\ SameIncrement
  /\ ret.kind = "code"
  /\ extractDate(arg.code) = getDateKey
  /\ currentSequence = MaxHistory
  /\ other.currentSequence = 0
  /\ pre.now # other.pre.now

\* C30: after every generate() the sequence part of the returned code has
\* exactly sequentialLength characters, and currentSequence has no more
\* digits than sequentialLength: growing the length once is enough
C30_GeneratedPartHasLength ==
  op = "generate" =>
    /\ startsWith(ret.code, prefix \o separator \o lastGeneratedDate \o separator)
    /\ Len(SequencePartAfter(ret.code, lastGeneratedDate)) = sequentialLength
    /\ Len(String(currentSequence)) <= sequentialLength

C30_Witness ==
  /\ op = "generate"
  /\ Len(String(currentSequence)) > pre.sequentialLength
  /\ Len(SequencePartAfter(ret.code, lastGeneratedDate)) = sequentialLength
  /\ sequentialLength = pre.sequentialLength + 1

\* the date format gives every instant a key of the same length
FixedLengthKey == \A t, u \in Instants : Len(KeyAt(t)) = Len(KeyAt(u))

C32_PartsPartition ==
  (op = "validate" /\ ret.bool) =>
    /\ arg.code = Template(extractDate(arg.code), SequenceSegment(arg.code))
    /\ extractSequence(arg.code) = DigitsValue(SequenceSegment(arg.code))

\* both generators made the same call with the same arguments under the same
\* date key while their sequentialLength was the same
SameCall ==
  /\ op \in ComparedCalls
  /\ other.op = op
  /\ other.arg = arg
  /\ pre.sequentialLength = other.pre.sequentialLength
  /\ KeyAt(pre.now) = KeyAt(other.pre.now)

\* C33: generateFromSequence, increment, validate, extractDate and
\* extractSequence do not depend on lastGeneratedDate or currentSequence: two
\* generators of equal configuration and sequentialLength with different
\* generate() histories return the same for the same arguments under the same
\* date key, and leave the same sequentialLength
C33_SameCallSameResult ==
  SameCall =>
    /\ ret = other.ret
    /\ sequentialLength = other.sequentialLength

C33_Witness ==
  /\ SameCall
  /\ op = "generateFromSequence"
  /\ arg.dateKey = Undefined
  /\ currentSequence = 0
  /\ other.currentSequence = MaxHistory
  /\ other.lastGeneratedDate # getDateKey
  /\ pre.now # other.pre.now
  /\ sequentialLength > pre.sequentialLength

\* an activation of generateFromSequence calls itself
SelfCall == frames # NoFrames /\ Len(frames') = Len(frames) + 1

\* C34: every call of generateFromSequence(n, k) with n >= 1 returns, and so
\* does every call of generate() and of increment(): an activation calls
\* itself at most once per call, and the self-call raises sequentialLength by
\* exactly 1
C34_CallsReturn ==
  /\ [](Len(frames) <= 2)
  /\ [][SelfCall => sequentialLength' = sequentialLength + 1]_vars
  /\ (frames # NoFrames ~> frames = NoFrames)

C34_Witness ==
  /\ op = "generateFromSequence"
  /\ arg.sequence = 1000
  /\ pre.sequentialLength = 1
  /\ frames = NoFrames
  /\ ret.kind = "code"
  /\ sequentialLength = 2

\* the code of the last call without its first characters, as many as the
\* prefix and the date string have together
LegacySequencePart ==
  SubSeq(arg.code, Len(prefix) + Len(dateString) + 1, Len(arg.code))

\* the first characters of that code: prefix and date
LegacyBase ==
  SubSeq(arg.code, 1, Min(Len(arg.code), Len(prefix) + Len(dateString)))

\* C35: in the positional-constructor class increment(code) fails with
\* 'Maximum number reached. Cannot increment.' exactly when the sequence
\* part of the code is 9999; for every other sequence part of digits it
\* returns prefix and date of the code as they are, followed by the sequence
\* plus one padded to four digits, whatever the date in the code is
C35_LegacyIncrement ==
  op = "increment" =>
    /\ (ret = ThrownWith(MaximumReached)) <=>
         (/\ DecimalDigits(LegacySequencePart)
          /\ DigitsValue(LegacySequencePart) = 9999)
    /\ (/\ DecimalDigits(LegacySequencePart)
        /\ DigitsValue(LegacySequencePart) # 9999) =>
         ret = CodeRet(LegacyBase \o
                 padStart(String(DigitsValue(LegacySequencePart) + 1), 4))

====
